---- MODULE Spec2Model ----
(***************************************************************************)
(* A model of the Garmin health dashboard (Streamlit application).         *)
(*                                                                         *)
(* The session dashboard ("scripts - v1.0/dashboard BCP.py") keeps its     *)
(* state in st.session_state: the selected metrics, the personal baselines *)
(* and the custom metric definitions.  Streamlit runs the whole script     *)
(* again after every single widget interaction, so one action of the model *)
(* is one interaction followed by one run of the script in the order       *)
(* app/main.py calls the methods: sidebar, baseline configuration, layout, *)
(* alert system, custom metric builder.                                    *)
(*                                                                         *)
(* Numbers: baselines are the integers the sliders return.  Sample values  *)
(* are floats in the source; the model keeps them in hundredths (Scale), so *)
(* 63.25 is 6325, and compares them with the thresholds by exact integer    *)
(* arithmetic.                                                              *)
(***************************************************************************)
EXTENDS Integers, Sequences, FiniteSets, TLC

VARIABLES
    primary_metrics,     \* st.session_state.metric_preferences['primary_metrics']
    personal_baselines,  \* st.session_state.personal_baselines
    alert_types,         \* value of the "Enable Alerts For:" multiselect
    sensitivity,         \* value of the "Alert Sensitivity" slider
    current,             \* current_value of each metric in the last alert pass
    alerts,              \* the list check_health_alerts returned in the last run
    edits,               \* number of baseline edits made so far (bounded)
    custom_metrics       \* st.session_state.custom_metrics

\* The database ("scripts - v1.0/create_database.py", db_helper.py)
VARIABLES
    health_data,         \* the rows of the table health_data
    now                  \* the clock, in hours: datetime.now() / datetime('now')

\* The analysis script ("scripts/baselines.py"), run from top to bottom
VARIABLES
    pc,                  \* the statement of the script reached so far
    health_df,           \* the data frame health_df, a sequence of rows
    activity_df,         \* the data frame activity_df, a sequence of rows
    health_baselines,    \* the first dictionary establish_baselines returns
    activity_baselines   \* the second dictionary establish_baselines returns

\* The database dashboard ("scripts - v1.0/dashboard.py")
VARIABLES
    time_range           \* st.session_state.metric_preferences['time_range']

\* One session of app/main.py, statement by statement
VARIABLES
    run_pc,              \* the statement of main() the script run has reached
    remaining,           \* iterations the countdown loop of main() has left
    auto_refresh,        \* value of the checkbox "Enable Auto-Refresh"
    update_freq,         \* value of the slider "Update Frequency (seconds)"
    connected,           \* whether sqlite3.connect succeeds
    checkbox_shown       \* whether the page shows the auto-refresh checkbox

dashboard_vars == <<primary_metrics, personal_baselines, alert_types, sensitivity,
                    current, alerts, edits, custom_metrics>>

store_vars == <<health_data, now>>

analysis_vars == <<pc, health_df, activity_df, health_baselines, activity_baselines>>

db_vars == <<time_range>>

main_vars == <<run_pc, remaining, auto_refresh, update_freq, connected, checkbox_shown>>

vars == <<primary_metrics, personal_baselines, alert_types, sensitivity,
          current, alerts, edits, custom_metrics,
          health_data, now,
          pc, health_df, activity_df, health_baselines, activity_baselines,
          time_range,
          run_pc, remaining, auto_refresh, update_freq, connected, checkbox_shown>>

----------------------------------------------------------------------------
(* Bounds of the model *)

\* Baseline edits (slider / number input changes) in one session.
MaxEdits == 1

----------------------------------------------------------------------------
(* Program constants *)

\* Sample values are kept in hundredths.
Scale == 100

\* "Update Frequency (seconds)" slider of the database dashboard: min_value,
\* max_value, step, and the update_frequency the preferences start with.
UpdateFreqMin == 5
UpdateFreqMax == 300
UpdateFreqStep == 5
UpdateFreqDefault == 30

\* "Alert Sensitivity" slider: min_value, max_value, value.
SensMin == 1
SensMax == 10
SensDefault == 5

\* tolerance = target * 0.05, written as a percentage.
TolerancePct == 5

\* np.clip bounds of generate_real_time_data: min * 0.8 and max * 1.2, in percent.
ClipLowPct == 80
ClipHighPct == 120

\* Defaults of baseline.get(...) in check_health_alerts.
DefaultMin == 0
DefaultMax == 100
DefaultTarget == 50

----------------------------------------------------------------------------
(* Helpers *)

Range(s) == {s[i] : i \in 1..Len(s)}

Min2(a, b) == IF a <= b THEN a ELSE b
Max2(a, b) == IF a >= b THEN a ELSE b
Abs(x) == IF x < 0 THEN -x ELSE x

\* dict.get(key, default)
Get(d, k, default) == IF k \in DOMAIN d THEN d[k] ELSE default

\* s without the element x (multiselect: removing one selected option)
RECURSIVE Without(_, _)
Without(s, x) ==
    IF s = <<>> THEN <<>>
    ELSE IF Head(s) = x THEN Without(Tail(s), x)
    ELSE <<Head(s)>> \o Without(Tail(s), x)

----------------------------------------------------------------------------
(* The metrics.  The source offers ten metrics; the model keeps two of     *)
(* them, with their rows of the source's tables.                           *)

available_metrics == <<"heart_rate", "spo2">>

Metrics == Range(available_metrics)

\* initialize_session_state: the initial personal_baselines
InitialBaselines ==
    [m \in Metrics |->
        IF m = "heart_rate" THEN [min |-> 50, max |-> 80, target |-> 65]
        ELSE [min |-> 95, max |-> 100, target |-> 98]]

\* create_baseline_configuration: the widget ranges per metric
metric_configs ==
    [m \in Metrics |->
        IF m = "heart_rate" THEN [min |-> 40, max |-> 200, default |-> 65]
        ELSE [min |-> 85, max |-> 100, default |-> 98]]

\* metric.replace('_', ' ').title()
Title(metric) ==
    CASE metric = "heart_rate" -> "Heart Rate"
      [] metric = "spo2" -> "Spo2"
      [] OTHER -> metric

\* The kinds the "Enable Alerts For:" multiselect offers, and its default.
AlertKinds == {"Threshold Breaches", "Trend Changes", "Anomalies", "Targets Reached"}
DefaultAlertKinds == {"Threshold Breaches", "Targets Reached"}

----------------------------------------------------------------------------
(* Inputs the model enumerates *)

\* Values a user types into a baseline widget (all inside the widget ranges).
BaselineChoices(m) == IF m = "heart_rate" THEN {65, 100} ELSE {98}

BaselineFields == {"min", "max", "target"}

\* Positions the sensitivity slider is moved to.
SensChoices == {SensDefault, SensMax}

\* The last sample np.random produces for a metric, before clipping
\* (hundredths).  The draw is random in the source: every value is possible.
RawValues(m) ==
    IF m = "heart_rate" THEN {4500, 5000, 6325, 8500}
    ELSE {9000, 10100}

\* One draw for every metric of the set S.
RECURSIVE Draws(_)
Draws(S) ==
    IF S = {} THEN {<<>>}
    ELSE LET m == CHOOSE x \in S : TRUE
         IN  {d @@ (m :> r) : d \in Draws(S \ {m}), r \in RawValues(m)}

----------------------------------------------------------------------------
(* generate_real_time_data and check_health_alerts *)

\* np.clip(values, min_val, max_val) = minimum(maximum(values, min_val), max_val)
Clip(x, lo, hi) == Min2(Max2(x, lo), hi)

\* round(current_value, 1): to the nearest tenth, a tie to the even tenth
\* (the ties among the model's values, .25 and .75, are exact in binary).
Round1(v) ==
    LET q == v \div 10
        r == v % 10
    IN  IF r < 5 THEN 10 * q
        ELSE IF r > 5 THEN 10 * (q + 1)
        ELSE IF q % 2 = 0 THEN 10 * q ELSE 10 * (q + 1)

\* st.session_state.personal_baselines.get(metric, {})
BaselineOf(metric) == Get(personal_baselines, metric, <<>>)

\* generate_real_time_data(metric).iloc[-1]: the last random sample `raw`,
\* clipped to [min * 0.8, max * 1.2] (hundredths).  The series is never empty
\* (at least 13 five-minute stamps), so the `else` of line 529 is not taken.
generate_real_time_data(metric, raw) ==
    LET baseline == BaselineOf(metric)
        min_val == Get(baseline, "min", 0) * ClipLowPct
        max_val == Get(baseline, "max", 100) * ClipHighPct
    IN  Clip(raw, min_val, max_val)

\* One entry of the alerts list.  The 'timestamp' field (datetime.now(), read
\* once per pass and the same in every alert of the pass) is left out.
Alert(metric, text, args, current_value, severity) ==
    [metric |-> Title(metric),
     message |-> [text |-> text, args |-> args],
     value |-> Round1(current_value),
     severity |-> severity]

\* Mutant: the second test written as `if` instead of `elif`.
ThresholdAlerts_both(metric, baseline, current_value) ==
    (IF current_value < Get(baseline, "min", DefaultMin) * Scale
     THEN <<Alert(metric, "Below minimum threshold",
                  <<Get(baseline, "min", DefaultMin)>>, current_value, "high")>>
     ELSE <<>>)
    \o
    (IF current_value > Get(baseline, "max", DefaultMax) * Scale
     THEN <<Alert(metric, "Above maximum threshold",
                  <<Get(baseline, "max", DefaultMax)>>, current_value, "high")>>
     ELSE <<>>)

\* Mutant: the comparisons written as <= and >=.
ThresholdAlerts_inclusive(metric, baseline, current_value) ==
    IF current_value <= Get(baseline, "min", DefaultMin) * Scale
    THEN <<Alert(metric, "Below minimum threshold",
                 <<Get(baseline, "min", DefaultMin)>>, current_value, "high")>>
    ELSE IF current_value >= Get(baseline, "max", DefaultMax) * Scale
    THEN <<Alert(metric, "Above maximum threshold",
                 <<Get(baseline, "max", DefaultMax)>>, current_value, "high")>>
    ELSE <<>>

\* Lines 531-548: if below min ... elif above max ...
ThresholdAlerts(metric, baseline, current_value) ==
    IF current_value < Get(baseline, "min", DefaultMin) * Scale
    THEN <<Alert(metric, "Below minimum threshold",
                 <<Get(baseline, "min", DefaultMin)>>, current_value, "high")>>
    ELSE IF current_value > Get(baseline, "max", DefaultMax) * Scale
    THEN <<Alert(metric, "Above maximum threshold",
                 <<Get(baseline, "max", DefaultMax)>>, current_value, "high")>>
    ELSE <<>>

\* Lines 550-561: tolerance = target * 0.05; abs(current_value - target) <= tolerance.
\* The sensitivity argument is not read.
TargetAlerts(metric, baseline, current_value, sensitivity_) ==
    LET target == Get(baseline, "target", DefaultTarget)
    IN  IF Abs(current_value - target * Scale) * 100 <= target * Scale * TolerancePct
        THEN <<Alert(metric, "Target achieved", <<>>, current_value, "low")>>
        ELSE <<>>

\* Mutant: a "Trend Changes" branch that reports a medium-severity alert.
MetricAlerts_trend(metric, alert_types_, sensitivity_) ==
    LET baseline == BaselineOf(metric)
        current_value == current[metric]
    IN  (IF "Threshold Breaches" \in alert_types_
         THEN ThresholdAlerts(metric, baseline, current_value) ELSE <<>>)
        \o
        (IF "Trend Changes" \in alert_types_
         THEN <<Alert(metric, "Trend change", <<>>, current_value, "medium")>>
         ELSE <<>>)
        \o
        (IF "Targets Reached" \in alert_types_
         THEN TargetAlerts(metric, baseline, current_value, sensitivity_) ELSE <<>>)

\* The body of the loop of check_health_alerts for one metric (lines 525-561).
MetricAlerts(metric, alert_types_, sensitivity_) ==
    LET baseline == BaselineOf(metric)
        current_value == current[metric]
    IN  (IF "Threshold Breaches" \in alert_types_
         THEN ThresholdAlerts(metric, baseline, current_value) ELSE <<>>)
        \o
        (IF "Targets Reached" \in alert_types_
         THEN TargetAlerts(metric, baseline, current_value, sensitivity_) ELSE <<>>)

RECURSIVE AlertsFor(_, _, _)
AlertsFor(metrics, alert_types_, sensitivity_) ==
    IF metrics = <<>> THEN <<>>
    ELSE MetricAlerts(Head(metrics), alert_types_, sensitivity_)
         \o AlertsFor(Tail(metrics), alert_types_, sensitivity_)

\* Mutant: the list sorted by severity before it is returned.
check_health_alerts_sorted(alert_types_, sensitivity_) ==
    LET all == AlertsFor(primary_metrics, alert_types_, sensitivity_)
    IN  SelectSeq(all, LAMBDA a : a.severity = "high")
        \o SelectSeq(all, LAMBDA a : a.severity = "medium")
        \o SelectSeq(all, LAMBDA a : a.severity = "low")

\* check_health_alerts(alert_types, sensitivity): the alerts of every selected
\* metric, appended in the order of primary_metrics.
check_health_alerts(alert_types_, sensitivity_) ==
    AlertsFor(primary_metrics, alert_types_, sensitivity_)

----------------------------------------------------------------------------
(* create_baseline_configuration *)

NoEdit == [metric |-> "", field |-> "", value |-> 0]

\* The value a baseline widget of `metric` returns: the stored value, or what
\* the user has just typed.
WidgetValue(metric, baseline, field, edit) ==
    IF edit.metric = metric /\ edit.field = field THEN edit.value
    ELSE Get(baseline, field,
             IF field = "target" THEN metric_configs[metric].default
             ELSE metric_configs[metric][field])

\* Every selected metric gets {'min': low_threshold, 'max': high_threshold,
\* 'target': target} from its widgets; a metric without a baseline first
\* gets {0, 100, 50}.
create_baseline_configuration(selected, baselines, edit) ==
    [m \in (DOMAIN baselines) \cup Range(selected) |->
        IF m \in Range(selected)
        THEN LET baseline == Get(baselines, m,
                                 [min |-> 0, max |-> 100, target |-> 50])
             IN  [min |-> WidgetValue(m, baseline, "min", edit),
                  max |-> WidgetValue(m, baseline, "max", edit),
                  target |-> WidgetValue(m, baseline, "target", edit)]
        ELSE baselines[m]]

----------------------------------------------------------------------------
(* One run of the script *)

\* Mutant: an alert shown in the previous run is not reported again.
Run_suppress(selected, edit, types, sens) ==
    /\ primary_metrics' = selected
    /\ personal_baselines' = create_baseline_configuration(selected, personal_baselines, edit)
    /\ alert_types' = types
    /\ sensitivity' = sens
    /\ \E raw \in Draws(Range(selected)) :
          current' = [m \in Range(selected) |-> (generate_real_time_data(m, raw[m]))']
    /\ alerts' = SelectSeq((check_health_alerts(alert_types, sensitivity))',
                           LAMBDA a : a \notin Range(alerts))
    /\ UNCHANGED custom_metrics
    /\ UNCHANGED <<store_vars, analysis_vars, db_vars, main_vars>>

\* create_customization_sidebar, create_baseline_configuration,
\* create_adaptive_layout (draws only), create_alert_system, and
\* create_custom_metric_builder without a click on one of its buttons.
Run(selected, edit, types, sens) ==
    /\ primary_metrics' = selected
    /\ personal_baselines' = create_baseline_configuration(selected, personal_baselines, edit)
    /\ alert_types' = types
    /\ sensitivity' = sens
    /\ \E raw \in Draws(Range(selected)) :
          current' = [m \in Range(selected) |-> (generate_real_time_data(m, raw[m]))']
    /\ alerts' = (check_health_alerts(alert_types, sensitivity))'
    /\ UNCHANGED custom_metrics
    /\ UNCHANGED <<store_vars, analysis_vars, db_vars, main_vars>>

\* The auto-refresh (or any interaction that changes none of these widgets).
Refresh ==
    /\ Run(primary_metrics, NoEdit, alert_types, sensitivity)
    /\ UNCHANGED edits

\* The user adds one metric to the "Choose Primary Metrics" multiselect.
SelectMetric ==
    \E m \in Metrics \ Range(primary_metrics) :
        /\ Run(Append(primary_metrics, m), NoEdit, alert_types, sensitivity)
        /\ UNCHANGED edits

\* The user removes one metric from the multiselect.
DeselectMetric ==
    \E m \in Range(primary_metrics) :
        /\ Run(Without(primary_metrics, m), NoEdit, alert_types, sensitivity)
        /\ UNCHANGED edits

\* The user changes the target slider or the low / high alert input of a
\* selected metric.
EditBaseline ==
    /\ edits < MaxEdits
    /\ \E m \in Range(primary_metrics), f \in BaselineFields :
         \E v \in BaselineChoices(m) :
            /\ metric_configs[m].min <= v /\ v <= metric_configs[m].max
            /\ v # Get(BaselineOf(m), f, v)
            /\ Run(primary_metrics, [metric |-> m, field |-> f, value |-> v],
                   alert_types, sensitivity)
    /\ edits' = edits + 1

\* The user adds or removes one kind in "Enable Alerts For:".
ToggleAlertType ==
    \E k \in AlertKinds :
        /\ Run(primary_metrics, NoEdit,
               IF k \in alert_types THEN alert_types \ {k} ELSE alert_types \cup {k},
               sensitivity)
        /\ UNCHANGED edits

\* The user moves the "Alert Sensitivity" slider.
SetSensitivity ==
    \E s \in SensChoices \ {sensitivity} :
        /\ SensMin <= s /\ s <= SensMax
        /\ Run(primary_metrics, NoEdit, alert_types, s)
        /\ UNCHANGED edits

\* The state after RealTimeHealthDashboard() is constructed in a new session,
\* before the first alert pass.  The source preselects heart_rate, steps and
\* sleep_efficiency; of these the model keeps heart_rate.  The table
\* health_data is empty after create_tables, and the analysis script has not
\* executed a statement yet.
Init ==
    /\ primary_metrics = <<"heart_rate">>
    /\ personal_baselines = InitialBaselines
    /\ alert_types = DefaultAlertKinds
    /\ sensitivity = SensDefault
    /\ current = <<>>
    /\ alerts = <<>>
    /\ edits = 0
    /\ custom_metrics = <<>>
    /\ health_data = {}
    /\ now = 1
    /\ pc = "start"
    /\ health_df = <<>>
    /\ activity_df = <<>>
    /\ health_baselines = <<>>
    /\ activity_baselines = <<>>
    /\ time_range = "24h"
    /\ run_pc = "dashboard"
    /\ remaining = 0
    /\ auto_refresh = FALSE
    /\ update_freq = UpdateFreqDefault
    /\ connected = TRUE
    /\ checkbox_shown = FALSE

Next ==
    \/ Refresh
    \/ SelectMetric
    \/ DeselectMetric
    \/ EditBaseline
    \/ ToggleAlertType
    \/ SetSensitivity

Spec == Init /\ [][Next]_vars

----------------------------------------------------------------------------
(* create_custom_metric_builder *)

\* Bounds of st.number_input("Weight", min_value=0.0, max_value=1.0), in hundredths.
WeightMin == 0
WeightMax == 100

\* range(min(3, len(base_metrics))): at most three component slots.
MaxSlots == 3

\* Names typed into "Custom Metric Name" ("" is the empty input).
NameInputs == {"", "score", "index"}

\* Weights a user tries to enter (hundredths) and metrics a user may want as
\* a component; the widgets decide which of them can be entered at all.
WeightCandidates == {0, 100, 150}
ComponentCandidates == Metrics \cup {"None", "ghost_metric"}

\* The "Operation" select box.
Operations == {"+", "/"}

\* Mutant: a number input without the max_value bound.
WeightInputs_unbounded == {w \in WeightCandidates : WeightMin <= w}

\* st.number_input: only a value inside [min_value, max_value] can be entered.
WeightInputs == {w \in WeightCandidates : WeightMin <= w /\ w <= WeightMax}

\* st.selectbox(..., ["None"] + base_metrics): only a listed option can be chosen.
ComponentOptions(base_metrics) ==
    {c \in ComponentCandidates : c = "None" \/ c \in Range(base_metrics)}

\* Number of slots shown.
SlotCount(base_metrics) == Min2(MaxSlots, Len(base_metrics))

\* Lines 590-625: the components of slots i, i+1, ... of the builder (slot
\* numbers from 0 as in the source), a slot set to "None" left out.
RECURSIVE ComponentsFrom(_, _, _, _, _)
ComponentsFrom(i, base_metrics, component, weight, operation) ==
    IF i >= SlotCount(base_metrics) THEN <<>>
    ELSE LET shown == IF i < 2 THEN operation[i] ELSE ""
             this == [metric |-> component[i],
                      weight |-> weight[i],
                      operation |-> IF i < Len(base_metrics) - 1 THEN shown ELSE ""]
         IN  (IF component[i] # "None" THEN <<this>> ELSE <<>>)
             \o ComponentsFrom(i + 1, base_metrics, component, weight, operation)

formula_components(base_metrics, component, weight, operation) ==
    ComponentsFrom(0, base_metrics, component, weight, operation)

\* Lines 629-636: the formula text, as the sequence of its parts; a part is
\* the term "(weight * metric)" followed by " operation " when the component
\* is not the last one and has an operation.
RECURSIVE PartsFrom(_, _)
PartsFrom(i, components) ==
    IF i > Len(components) THEN <<>>
    ELSE LET comp == components[i]
         IN  <<[weight |-> comp.weight,
                metric |-> comp.metric,
                operation |-> IF i < Len(components) /\ comp.operation # ""
                              THEN comp.operation ELSE ""]>>
             \o PartsFrom(i + 1, components)

formula_text(components) == PartsFrom(1, components)

\* Lines 639-648: the click on "Create Custom Metric".  The button exists
\* only when there is a component and a name.
CreateCustomMetric ==
    /\ primary_metrics # <<>>
    /\ \E metric_name \in NameInputs :
       \E component \in [0..(SlotCount(primary_metrics) - 1) -> ComponentOptions(primary_metrics)] :
       \E weight \in [0..(SlotCount(primary_metrics) - 1) -> WeightInputs] :
       \E operation \in [0..1 -> Operations] :
          LET components == formula_components(primary_metrics, component, weight, operation)
          IN  /\ components # <<>>
              /\ metric_name # ""
              /\ custom_metrics' =
                    [n \in (DOMAIN custom_metrics) \cup {metric_name} |->
                        IF n = metric_name
                        THEN [components |-> components,
                              formula |-> formula_text(components)]
                        ELSE custom_metrics[n]]
    /\ UNCHANGED <<primary_metrics, personal_baselines, alert_types, sensitivity,
                   current, alerts, edits>>
    /\ UNCHANGED <<store_vars, analysis_vars, db_vars, main_vars>>

\* The keys "delete_<name>" a click can carry: a button exists for a stored
\* name only, and a click that is still under way when the run that deleted
\* the name has finished (a double click) carries the key of a name that is
\* no longer stored.
DeleteKeys == NameInputs \ {""}

\* Mutant: the delete statement empties the dictionary.
DelItem_clear(d, name) == [custom_metrics |-> <<>>, error |-> ""]

\* del d[name]: a KeyError when name is not a key of d.
DelItem(d, name) ==
    IF name \in DOMAIN d
    THEN [custom_metrics |-> [n \in (DOMAIN d) \ {name} |-> d[n]], error |-> ""]
    ELSE [custom_metrics |-> d, error |-> "KeyError"]

\* Mutant: the delete statement run with the clicked key, outside the loop over
\* the stored names.
delete_clicked_unguarded(d, clicked) == DelItem(d, clicked)

\* Lines 651-658 (dashboard.py 245-252): for every stored name a button
\* "Delete <name>"; the statement `del` runs for the name whose button was
\* clicked, and st.rerun() ends the loop.  No button: nothing runs.
delete_clicked(d, clicked) ==
    IF d # <<>> /\ \E name \in DOMAIN d : name = clicked
    THEN DelItem(d, clicked)
    ELSE [custom_metrics |-> d, error |-> ""]

\* Lines 650-658: the click on "Delete <name>".
DeleteCustomMetric ==
    /\ primary_metrics # <<>>
    /\ \E clicked \in DeleteKeys :
          custom_metrics' = delete_clicked(custom_metrics, clicked).custom_metrics
    /\ UNCHANGED <<primary_metrics, personal_baselines, alert_types, sensitivity,
                   current, alerts, edits>>
    /\ UNCHANGED <<store_vars, analysis_vars, db_vars, main_vars>>

\* create_customization_sidebar: the multiselect gains or loses one metric.
ChooseBaseMetric ==
    /\ \E m \in Metrics \ Range(primary_metrics) :
          primary_metrics' = Append(primary_metrics, m)
    /\ UNCHANGED <<personal_baselines, alert_types, sensitivity, current, alerts,
                   edits, custom_metrics>>
    /\ UNCHANGED <<store_vars, analysis_vars, db_vars, main_vars>>

DropBaseMetric ==
    /\ \E m \in Range(primary_metrics) :
          primary_metrics' = Without(primary_metrics, m)
    /\ UNCHANGED <<personal_baselines, alert_types, sensitivity, current, alerts,
                   edits, custom_metrics>>
    /\ UNCHANGED <<store_vars, analysis_vars, db_vars, main_vars>>

\* The session as the builder sees it: the selected metrics and the stored
\* definitions.  The alert pass of a run reads and writes neither and is not
\* replayed in this specification.
NextBuilder ==
    \/ ChooseBaseMetric
    \/ DropBaseMetric
    \/ CreateCustomMetric
    \/ DeleteCustomMetric

SpecBuilder == Init /\ [][NextBuilder]_vars

----------------------------------------------------------------------------
(* The analysis script scripts/baselines.py: generate_sample_data,         *)
(* calculate_derived_metrics, establish_baselines, called in this order.   *)
(*                                                                         *)
(* Numbers: a raw column holds integers of its unit (avg_pace_min_km in    *)
(* hundredths of a minute); a derived column holds thousandths (Milli); an *)
(* entry of a baseline holds hundredths of the unit of its column (QScale), *)
(* which is what the interpolation of a quantile needs.  The rows the model *)
(* draws are chosen so that every division of the script is exact.         *)

\* Rows of health_df (the argument `days` of generate_sample_data).
MaxDays == 3

Milli == 1000
QScale == 100

\* Rows np.random can produce for health_df, each inside the clip range of its
\* column (the columns no later statement reads are left out).
HealthRows ==
    { [steps |-> 8000, active_minutes |-> 36, sleep_efficiency |-> 85,
       hrv_score |-> 35, resting_hr |-> 65, stress_avg |-> 35],
      [steps |-> 12000, active_minutes |-> 72, sleep_efficiency |-> 90,
       hrv_score |-> 50, resting_hr |-> 55, stress_avg |-> 20],
      [steps |-> 5000, active_minutes |-> 18, sleep_efficiency |-> 70,
       hrv_score |-> 20, resting_hr |-> 75, stress_avg |-> 60] }

\* Rows np.random can produce for activity_df.
ActivityRows ==
    { [distance_km |-> 5, avg_pace_min_km |-> 520, avg_hr |-> 153,
       calories_burned |-> 250, elevation_gain |-> 120],
      [distance_km |-> 8, avg_pace_min_km |-> 450, avg_hr |-> 170,
       calories_burned |-> 500, elevation_gain |-> 200] }

\* .clip(lo, hi) of every column of generate_sample_data.
InClipRange(x, lo, hi) == lo <= x /\ x <= hi

HealthRowClipped(r) ==
    /\ InClipRange(r.steps, 2000, 15000)
    /\ InClipRange(r.active_minutes, 10, 120)
    /\ InClipRange(r.sleep_efficiency, 60, 98)
    /\ InClipRange(r.hrv_score, 15, 60)
    /\ InClipRange(r.resting_hr, 45, 85)
    /\ InClipRange(r.stress_avg, 5, 80)

ActivityRowClipped(r) ==
    /\ InClipRange(r.distance_km, 1, 15)
    /\ InClipRange(r.avg_pace_min_km, 350, 750)
    /\ InClipRange(r.avg_hr, 120, 190)
    /\ InClipRange(r.calories_burned, 150, 700)
    /\ InClipRange(r.elevation_gain, 0, 300)

\* Draws of np.random.normal(0.15, 0.05) for pace_consistency (thousandths);
\* the first lies below the clip range [0.05, 0.4].
PaceDraws == {20, 150}

\* len(dates[::2]): every other day has an activity.
ActivityCount(days) == (days + 1) \div 2

\* Lines 14-44.
generate_sample_data ==
    /\ pc = "start"
    /\ \E days \in 1..MaxDays :
       \E hrows \in [1..days -> {r \in HealthRows : HealthRowClipped(r)}] :
       \E arows \in [1..ActivityCount(days) -> {r \in ActivityRows : ActivityRowClipped(r)}] :
          /\ health_df' = hrows
          /\ activity_df' = arows
    /\ pc' = "generated"
    /\ UNCHANGED <<health_baselines, activity_baselines>>
    /\ UNCHANGED <<dashboard_vars, store_vars, db_vars, main_vars>>

\* Line 49: (steps / 10000) * 0.4 + (active_minutes / 60) * 0.6
activity_score(r) == (r.steps * 4 * Milli) \div 100000 + (r.active_minutes * 6 * Milli) \div 600

\* Line 50: active_minutes / (24 * 60) * 100
movement_ratio(r) == (r.active_minutes * 100 * Milli) \div (24 * 60)

\* Lines 51-52: hrv_score * 0.4 + sleep_efficiency * 0.3 + (100 - resting_hr) * 0.3
recovery_score(r) ==
    r.hrv_score * 400 + r.sleep_efficiency * 300 + (100 - r.resting_hr) * 300

\* Mutant: the activity score taken with the weight 0.3.
wellness_score_unscaled(r) ==
    r.sleep_efficiency * 300 + r.hrv_score * 200
        + (activity_score(r) * 3) \div 10 + (100 - r.stress_avg) * 200

\* Lines 53-54: sleep_efficiency * 0.3 + hrv_score * 0.2 + activity_score * 30
\*              + (100 - stress_avg) * 0.2
wellness_score(r) ==
    r.sleep_efficiency * 300 + r.hrv_score * 200
        + activity_score(r) * 30 + (100 - r.stress_avg) * 200

\* Line 57: 1 - normal(0.15, 0.05).clip(0.05, 0.4), for one random draw.
pace_consistency(draw) == Milli - Clip(draw, 50, 400)

\* Line 58: avg_hr / 170
intensity_factor(r) == (r.avg_hr * Milli) \div 170

\* Line 59: distance_km / calories_burned * 1000
caloric_efficiency(r) == (r.distance_km * 1000 * Milli) \div r.calories_burned

\* Line 60: elevation_gain / distance_km
elevation_efficiency(r) == (r.elevation_gain * Milli) \div r.distance_km

\* The divisions of lines 49-60 are exact for the row.
ExactHealthRow(r) ==
    /\ (r.steps * 4 * Milli) % 100000 = 0
    /\ (r.active_minutes * 100 * Milli) % (24 * 60) = 0

ExactActivityRow(r) ==
    /\ (r.avg_hr * Milli) % 170 = 0
    /\ (r.distance_km * 1000 * Milli) % r.calories_burned = 0
    /\ (r.elevation_gain * Milli) % r.distance_km = 0

\* Lines 49-54 for one row: the raw columns stay, the derived are assigned.
DeriveHealthRow(r) ==
    [steps |-> r.steps, active_minutes |-> r.active_minutes,
     sleep_efficiency |-> r.sleep_efficiency, hrv_score |-> r.hrv_score,
     resting_hr |-> r.resting_hr, stress_avg |-> r.stress_avg,
     activity_score |-> activity_score(r),
     movement_ratio |-> movement_ratio(r),
     recovery_score |-> recovery_score(r),
     wellness_score |-> wellness_score(r)]

\* Lines 57-60 for one row and its random draw.
DeriveActivityRow(r, draw) ==
    [distance_km |-> r.distance_km, avg_pace_min_km |-> r.avg_pace_min_km,
     avg_hr |-> r.avg_hr, calories_burned |-> r.calories_burned,
     elevation_gain |-> r.elevation_gain,
     pace_consistency |-> pace_consistency(draw),
     intensity_factor |-> intensity_factor(r),
     caloric_efficiency |-> caloric_efficiency(r),
     elevation_efficiency |-> elevation_efficiency(r)]

\* Lines 47-62, applied to the generated frames (line 88) or once more to the
\* frames it has returned.
calculate_derived_metrics ==
    /\ pc \in {"generated", "derived"}
    /\ \A i \in 1..Len(health_df) : ExactHealthRow(health_df[i])
    /\ \A i \in 1..Len(activity_df) : ExactActivityRow(activity_df[i])
    /\ health_df' = [i \in 1..Len(health_df) |-> DeriveHealthRow(health_df[i])]
    /\ \E draw \in [1..Len(activity_df) -> PaceDraws] :
          activity_df' = [i \in 1..Len(activity_df) |->
                              DeriveActivityRow(activity_df[i], draw[i])]
    /\ pc' = "derived"
    /\ UNCHANGED <<health_baselines, activity_baselines>>
    /\ UNCHANGED <<dashboard_vars, store_vars, db_vars, main_vars>>

\* df[name] as a sequence of values.
Column(df, name) == [i \in 1..Len(df) |-> df[i][name]]

\* Series.quantile(q), q in percent: linear interpolation between the two
\* order statistics around position q * (n - 1); the result in hundredths.
Quantile(values, q) ==
    LET sorted == SortSeq(values, LAMBDA a, b : a < b)
        n == Len(sorted)
        pos == q * (n - 1)
        lo == pos \div 100
        frac == pos % 100
        hi == Min2(lo + 1, n - 1)
    IN  sorted[lo + 1] * QScale + frac * (sorted[hi + 1] - sorted[lo + 1])

\* Series.median()
Median(values) == Quantile(values, 50)

\* A number written in the source, as an entry of a baseline.
Fixed(x) == x * QScale

Band(target, good, poor) == [target |-> target, good |-> good, poor |-> poor]

\* Mutant: every metric without a domain default gets the 90th, 75th and
\* 25th percentile (the 10th, 25th and 75th where lower is better).
establish_baselines_uniform(hdf, adf) ==
    [health |->
        [steps |-> Band(Fixed(10000), Quantile(Column(hdf, "steps"), 75),
                        Quantile(Column(hdf, "steps"), 25)),
         sleep_efficiency |-> Band(Fixed(85), Fixed(80), Fixed(70)),
         hrv_score |-> Band(Quantile(Column(hdf, "hrv_score"), 90),
                            Quantile(Column(hdf, "hrv_score"), 75),
                            Quantile(Column(hdf, "hrv_score"), 25)),
         stress_avg |-> Band(Fixed(25), Fixed(35), Fixed(50)),
         wellness_score |-> Band(Quantile(Column(hdf, "wellness_score"), 90),
                                 Quantile(Column(hdf, "wellness_score"), 75),
                                 Quantile(Column(hdf, "wellness_score"), 25)),
         recovery_score |-> Band(Quantile(Column(hdf, "recovery_score"), 90),
                                 Quantile(Column(hdf, "recovery_score"), 75),
                                 Quantile(Column(hdf, "recovery_score"), 25))],
     activity |->
        [avg_pace_min_km |-> Band(Quantile(Column(adf, "avg_pace_min_km"), 10),
                                  Quantile(Column(adf, "avg_pace_min_km"), 25),
                                  Quantile(Column(adf, "avg_pace_min_km"), 75)),
         intensity_factor |-> Band(Fixed(900), Fixed(800), Fixed(700)),
         pace_consistency |-> Band(Fixed(900), Fixed(800), Fixed(700)),
         caloric_efficiency |-> Band(Quantile(Column(adf, "caloric_efficiency"), 90),
                                     Quantile(Column(adf, "caloric_efficiency"), 75),
                                     Quantile(Column(adf, "caloric_efficiency"), 25))]]

\* Lines 65-84.
establish_baselines(hdf, adf) ==
    [health |->
        [steps |-> Band(Fixed(10000), Quantile(Column(hdf, "steps"), 75),
                        Quantile(Column(hdf, "steps"), 25)),
         sleep_efficiency |-> Band(Fixed(85), Fixed(80), Fixed(70)),
         hrv_score |-> Band(Quantile(Column(hdf, "hrv_score"), 75),
                            Median(Column(hdf, "hrv_score")),
                            Quantile(Column(hdf, "hrv_score"), 25)),
         stress_avg |-> Band(Fixed(25), Fixed(35), Fixed(50)),
         wellness_score |-> Band(Quantile(Column(hdf, "wellness_score"), 90),
                                 Quantile(Column(hdf, "wellness_score"), 75),
                                 Quantile(Column(hdf, "wellness_score"), 25)),
         recovery_score |-> Band(Quantile(Column(hdf, "recovery_score"), 80),
                                 Median(Column(hdf, "recovery_score")),
                                 Quantile(Column(hdf, "recovery_score"), 30))],
     activity |->
        [avg_pace_min_km |-> Band(Quantile(Column(adf, "avg_pace_min_km"), 25),
                                  Median(Column(adf, "avg_pace_min_km")),
                                  Quantile(Column(adf, "avg_pace_min_km"), 75)),
         intensity_factor |-> Band(Fixed(900), Fixed(800), Fixed(700)),
         pace_consistency |-> Band(Fixed(900), Fixed(800), Fixed(700)),
         caloric_efficiency |-> Band(Quantile(Column(adf, "caloric_efficiency"), 75),
                                     Median(Column(adf, "caloric_efficiency")),
                                     Quantile(Column(adf, "caloric_efficiency"), 25))]]

\* Line 89: health_baselines, activity_baselines = establish_baselines(...)
EstablishBaselines ==
    /\ pc = "derived"
    /\ health_baselines' = establish_baselines(health_df, activity_df).health
    /\ activity_baselines' = establish_baselines(health_df, activity_df).activity
    /\ pc' = "established"
    /\ UNCHANGED <<health_df, activity_df>>
    /\ UNCHANGED <<dashboard_vars, store_vars, db_vars, main_vars>>

NextBaselines ==
    \/ generate_sample_data
    \/ calculate_derived_metrics
    \/ EstablishBaselines

SpecBaselines == Init /\ [][NextBaselines]_vars

----------------------------------------------------------------------------
(* Properties of the alert evaluation *)

\* An alert pass has run: every selected metric has its current value.
PassDone == DOMAIN current = Range(primary_metrics)

IsBelow(a) == a.message.text = "Below minimum threshold"
IsAbove(a) == a.message.text = "Above maximum threshold"
IsTarget(a) == a.message.text = "Target achieved"

\* The alerts of the last pass that are about metric m.
AlertsOf(m) == SelectSeq(alerts, LAMBDA a : a.metric = Title(m))

NBelow(m) == Len(SelectSeq(AlertsOf(m), IsBelow))
NAbove(m) == Len(SelectSeq(AlertsOf(m), IsAbove))
NTarget(m) == Len(SelectSeq(AlertsOf(m), IsTarget))

MinOf(m) == Get(BaselineOf(m), "min", DefaultMin)
MaxOf(m) == Get(BaselineOf(m), "max", DefaultMax)
TargetOf(m) == Get(BaselineOf(m), "target", DefaultTarget)

BelowMin(m) == current[m] < MinOf(m) * Scale
AboveMax(m) == current[m] > MaxOf(m) * Scale

HighOnly(sq) == \A i \in 1..Len(sq) : sq[i].severity = "high"

\* C1: one alert pass never reports both "below minimum" and "above maximum"
\* for the same metric, whatever the relation between its min and max.
C1_NeverBelowAndAbove ==
    \A m \in DOMAIN current : ~(NBelow(m) >= 1 /\ NAbove(m) >= 1)

\* C1 witness: a pass in which a value is below min and above max at once
\* (min > max), with threshold alerts enabled, and one alert came out.
C1_Witness ==
    \E m \in DOMAIN current :
        /\ "Threshold Breaches" \in alert_types
        /\ BelowMin(m) /\ AboveMax(m)
        /\ NBelow(m) = 1

SpecTolerancePct(s) == 11 - s

WithinSpecTolerance(m) ==
    Abs(current[m] - TargetOf(m) * Scale) * 100
        <= TargetOf(m) * Scale * SpecTolerancePct(sensitivity)

\* C3 as stated: with "Targets Reached" enabled a low "target achieved" alert
\* is reported for a metric exactly when |value - target| <= target * f(s).
C3_Original ==
    "Targets Reached" \in alert_types =>
        \A m \in DOMAIN current :
            /\ NTarget(m) = (IF WithinSpecTolerance(m) THEN 1 ELSE 0)
            /\ \A i \in 1..Len(alerts) : IsTarget(alerts[i]) => alerts[i].severity = "low"

SeverityRank(sev) ==
    CASE sev = "high" -> 3 [] sev = "medium" -> 2 [] sev = "low" -> 1 [] OTHER -> 0

\* Alphabetical rank of the metric names the alerts carry.
NameRank(name) ==
    CASE name = "Heart Rate" -> 1 [] name = "Spo2" -> 2 [] OTHER -> 0

\* Position of the metric an alert names in primary_metrics.
PositionOf(name) ==
    CHOOSE i \in 1..Len(primary_metrics) : Title(primary_metrics[i]) = name

\* C4 as stated: the alerts of one pass are ordered by severity descending,
\* alerts of equal severity by metric name ascending.
C4_Original ==
    \A i, j \in 1..Len(alerts) :
        i < j =>
            \/ SeverityRank(alerts[i].severity) > SeverityRank(alerts[j].severity)
            \/ /\ alerts[i].severity = alerts[j].severity
               /\ NameRank(alerts[i].metric) <= NameRank(alerts[j].metric)

\* C4 amended: the alerts of one pass come in the order in which the metrics
\* are selected, and for one metric its threshold alert (high) comes before
\* its target alert (low).
C4_SelectionOrder ==
    PassDone =>
        \A i, j \in 1..Len(alerts) :
            i < j =>
                \/ PositionOf(alerts[i].metric) < PositionOf(alerts[j].metric)
                \/ /\ alerts[i].metric = alerts[j].metric
                   /\ alerts[i].severity = "high"
                   /\ alerts[j].severity = "low"

\* C4 witness: a pass over two metrics where a low alert of the metric
\* selected first stands before a high alert of the metric selected second.
C4_Witness ==
    /\ Len(primary_metrics) = 2
    /\ \E i, j \in 1..Len(alerts) :
          /\ i < j
          /\ alerts[i].severity = "low"
          /\ alerts[j].severity = "high"
          /\ alerts[i].metric = Title(primary_metrics[1])
          /\ alerts[j].metric = Title(primary_metrics[2])

\* C5: a run whose selected metrics, baselines, enabled kinds, sensitivity
\* and current values are those of the run before it returns the alert
\* sequence of the run before it: nothing is suppressed, nothing remembered.
C5_NoStateBetweenCycles ==
    [][(/\ primary_metrics' = primary_metrics
        /\ personal_baselines' = personal_baselines
        /\ alert_types' = alert_types
        /\ sensitivity' = sensitivity
        /\ current' = current)
       => alerts' = alerts]_vars

\* C5 witness: a pass has reported alerts and a refresh that draws the same
\* values again can follow it.
C5_Witness ==
    /\ PassDone
    /\ Len(alerts) >= 2
    /\ ENABLED (Refresh /\ current' = current)

\* C6 as stated: with both kinds enabled, a value below min and farther from
\* the target than the tolerance target * f(s) gets exactly one alert:
\* high, "below minimum".
C6_Original ==
    {"Threshold Breaches", "Targets Reached"} \subseteq alert_types =>
        \A m \in DOMAIN current :
            (BelowMin(m) /\ ~WithinSpecTolerance(m)) =>
                /\ Len(AlertsOf(m)) = 1
                /\ IsBelow(AlertsOf(m)[1])
                /\ AlertsOf(m)[1].severity = "high"

\* C7: enabling "Trend Changes" and / or "Anomalies" changes nothing: the
\* alerts of a pass are those of the pass with the two kinds left out.
C7_ExtensionKindsIgnored ==
    PassDone =>
        alerts = check_health_alerts(alert_types \ {"Trend Changes", "Anomalies"},
                                     sensitivity)

\* C7 witness: a pass with both extension kinds enabled that reported alerts.
C7_Witness ==
    /\ PassDone
    /\ {"Trend Changes", "Anomalies"} \subseteq alert_types
    /\ Len(alerts) >= 1

\* C27 as stated: every stored personal baseline has min <= target <= max.
C27_Original ==
    \A m \in DOMAIN personal_baselines :
        /\ personal_baselines[m].min <= personal_baselines[m].target
        /\ personal_baselines[m].target <= personal_baselines[m].max

----------------------------------------------------------------------------
(* Properties of the custom metric builder *)

\* Every component of the definition has a weight in [0, 1] and a metric of
\* the set `metrics`.
ValidDefinition(definition, metrics) ==
    \A i \in 1..Len(definition.components) :
        /\ WeightMin <= definition.components[i].weight
        /\ definition.components[i].weight <= WeightMax
        /\ definition.components[i].metric \in metrics

\* C8: no definition with a weight outside [0, 1] or with a component that is
\* not a selected metric is ever stored: in every state every stored definition
\* has weights in [0, 1] only and metrics of the dashboard only, and every
\* step that stores or replaces a definition stores one whose components are
\* metrics selected at that moment.
C8_StoredDefinitionsValid ==
    /\ [](\A n \in DOMAIN custom_metrics :
            ValidDefinition(custom_metrics[n], Range(available_metrics)))
    /\ [][\A n \in DOMAIN custom_metrics' :
            (n \notin DOMAIN custom_metrics \/ custom_metrics'[n] # custom_metrics[n])
                => ValidDefinition(custom_metrics'[n], Range(primary_metrics))]_vars

\* C8 witness: definitions are stored that use the weights 0 and 1, and one
\* of them has a component that has been deselected since it was registered.
C8_Witness ==
    /\ \E n \in DOMAIN custom_metrics :
       \E i \in 1..Len(custom_metrics[n].components) :
          custom_metrics[n].components[i].weight = WeightMax
    /\ \E n \in DOMAIN custom_metrics :
       \E i \in 1..Len(custom_metrics[n].components) :
          custom_metrics[n].components[i].weight = WeightMin
    /\ \E n \in DOMAIN custom_metrics :
       \E i \in 1..Len(custom_metrics[n].components) :
          custom_metrics[n].components[i].metric \notin Range(primary_metrics)

\* C11: removing a name that is not stored changes nothing and raises no
\* error, removing a stored name raises no error and removes that name, and
\* removing the same name a second time gives the state the first removal gave.
C11_RemoveIdempotent ==
    \A clicked \in DeleteKeys :
        LET once == delete_clicked(custom_metrics, clicked)
            twice == delete_clicked(once.custom_metrics, clicked)
        IN  /\ once.error = ""
            /\ twice.error = ""
            /\ twice.custom_metrics = once.custom_metrics
            /\ clicked \notin DOMAIN once.custom_metrics
            /\ clicked \notin DOMAIN custom_metrics => once.custom_metrics = custom_metrics

\* C11 witness: one name is stored and another is not, so that a removal of
\* the first changes the definitions and a removal of the second cannot.
C11_Witness ==
    \E stored, absent \in DeleteKeys :
        /\ stored \in DOMAIN custom_metrics
        /\ absent \notin DOMAIN custom_metrics
        /\ delete_clicked(custom_metrics, stored).custom_metrics # custom_metrics
        /\ delete_clicked(custom_metrics, absent).custom_metrics = custom_metrics

\* C26: a stored definition stays as it is over every later run of the
\* script until it is deleted by its name or created again under its name; a
\* step that deletes or replaces the definition of one name leaves the
\* definition of every other name as it is, and a run in which the selection
\* of metrics changes leaves all of them as they are.
C26_DefinitionsKept ==
    [][/\ \A n \in DOMAIN custom_metrics :
             \/ /\ n \in DOMAIN custom_metrics'
                /\ custom_metrics'[n] = custom_metrics[n]
             \/ \A k \in (DOMAIN custom_metrics) \ {n} :
                   /\ k \in DOMAIN custom_metrics'
                   /\ custom_metrics'[k] = custom_metrics[k]
       /\ primary_metrics' # primary_metrics => custom_metrics' = custom_metrics]_vars

\* C26 witness: two different definitions are stored, one of them with a
\* component that a later run has deselected, and a click can delete one and
\* leave the other.
C26_Witness ==
    /\ Cardinality(DOMAIN custom_metrics) = 2
    /\ \E n, k \in DOMAIN custom_metrics : custom_metrics[n] # custom_metrics[k]
    /\ \E n \in DOMAIN custom_metrics :
       \E i \in 1..Len(custom_metrics[n].components) :
          custom_metrics[n].components[i].metric \notin Range(primary_metrics)
    /\ ENABLED (DeleteCustomMetric /\ Cardinality(DOMAIN custom_metrics') = 1)

\* The number of parts of a formula text that end in an operation.
RECURSIVE OperatorCount(_)
OperatorCount(parts) ==
    IF parts = <<>> THEN 0
    ELSE (IF Head(parts).operation # "" THEN 1 ELSE 0) + OperatorCount(Tail(parts))

\* C29 as stated: a stored definition has between 1 and 3 components, every
\* component but the last has an operation of the select box, the last has
\* the empty operation, and the formula text has one term per component,
\* joined by one operation less than there are terms, none after the last.
C29_Original ==
    \A n \in DOMAIN custom_metrics :
        LET components == custom_metrics[n].components
            formula == custom_metrics[n].formula
            last == Len(components)
        IN  /\ 1 <= last /\ last <= MaxSlots
            /\ \A i \in 1..(last - 1) : components[i].operation \in Operations
            /\ components[last].operation = ""
            /\ Len(formula) = last
            /\ OperatorCount(formula) = last - 1
            /\ formula[last].operation = ""

----------------------------------------------------------------------------
(* Properties of the analysis script *)

Derived == pc \in {"derived", "established"}

Established == pc = "established"

\* The metrics for which a lower value is the better one.
LowerIsBetter == {"stress_avg", "avg_pace_min_km"}

\* poor <= good <= target, or target <= good <= poor where lower is better.
Ordered(metric, b) ==
    IF metric \in LowerIsBetter
    THEN b.target <= b.good /\ b.good <= b.poor
    ELSE b.poor <= b.good /\ b.good <= b.target

\* C13 as stated: every baseline establish_baselines returns has
\* poor <= good <= target (target <= good <= poor where lower is better),
\* whether its target is a fixed number or a percentile of the samples.
C13_Original ==
    Established =>
        /\ \A m \in DOMAIN health_baselines : Ordered(m, health_baselines[m])
        /\ \A m \in DOMAIN activity_baselines : Ordered(m, activity_baselines[m])

\* The column of a metric that has a baseline.
SamplesOf(metric) ==
    IF metric \in DOMAIN health_baselines
    THEN Column(health_df, metric)
    ELSE Column(activity_df, metric)

BaselineOfMetric(metric) ==
    IF metric \in DOMAIN health_baselines
    THEN health_baselines[metric]
    ELSE activity_baselines[metric]

BaselineMetrics == (DOMAIN health_baselines) \cup (DOMAIN activity_baselines)

\* The metrics whose target is a number written in the source.
FixedTarget ==
    {"steps", "sleep_efficiency", "stress_avg", "intensity_factor", "pace_consistency"}

\* The percentile of the specification: p, or 100 - p where lower is better.
Directed(metric, p) == IF metric \in LowerIsBetter THEN 100 - p ELSE p

\* C14 as stated: target is the domain default when there is one, else the
\* 90th percentile (10th where lower is better); good is the 75th percentile
\* (25th); poor is the 25th percentile (75th) -- for every metric.
C14_Original ==
    Established =>
        \A m \in BaselineMetrics :
            /\ m \notin FixedTarget =>
                  BaselineOfMetric(m).target = Quantile(SamplesOf(m), Directed(m, 90))
            /\ BaselineOfMetric(m).good = Quantile(SamplesOf(m), Directed(m, 75))
            /\ BaselineOfMetric(m).poor = Quantile(SamplesOf(m), Directed(m, 25))

\* The bands of metric m are the percentiles t, g and p of its samples.
Percentiles(m, t, g, p) ==
    /\ BaselineOfMetric(m).target = Quantile(SamplesOf(m), t)
    /\ BaselineOfMetric(m).good = Quantile(SamplesOf(m), g)
    /\ BaselineOfMetric(m).poor = Quantile(SamplesOf(m), p)

\* C14 amended: steps has the target 10000 and the 75th and 25th percentile
\* as good and poor; wellness_score has the 90th, 75th and 25th percentile;
\* hrv_score and caloric_efficiency have the 75th, the median and the 25th;
\* recovery_score has the 80th, the median and the 30th; avg_pace_min_km
\* (lower is better) has the 25th, the median and the 75th; the bands of
\* sleep_efficiency, stress_avg, intensity_factor and pace_consistency are
\* numbers that do not depend on the samples.
C14_PerMetricPercentiles ==
    Established =>
        /\ BaselineOfMetric("steps").target = Fixed(10000)
        /\ BaselineOfMetric("steps").good = Quantile(SamplesOf("steps"), 75)
        /\ BaselineOfMetric("steps").poor = Quantile(SamplesOf("steps"), 25)
        /\ Percentiles("wellness_score", 90, 75, 25)
        /\ Percentiles("hrv_score", 75, 50, 25)
        /\ Percentiles("caloric_efficiency", 75, 50, 25)
        /\ Percentiles("recovery_score", 80, 50, 30)
        /\ Percentiles("avg_pace_min_km", 25, 50, 75)
        /\ BaselineOfMetric("sleep_efficiency") = Band(Fixed(85), Fixed(80), Fixed(70))
        /\ BaselineOfMetric("stress_avg") = Band(Fixed(25), Fixed(35), Fixed(50))
        /\ BaselineOfMetric("intensity_factor") = Band(Fixed(900), Fixed(800), Fixed(700))
        /\ BaselineOfMetric("pace_consistency") = Band(Fixed(900), Fixed(800), Fixed(700))

\* C14 witness: baselines established from three days whose hrv scores all
\* differ, so that the 90th and the 75th percentile (and the 75th and the
\* median) of a column are different numbers, and two activities.
C14_Witness ==
    /\ Established
    /\ Len(health_df) = 3
    /\ Len(activity_df) = 2
    /\ Quantile(SamplesOf("hrv_score"), 90) > Quantile(SamplesOf("hrv_score"), 75)
    /\ Quantile(SamplesOf("hrv_score"), 75) > Quantile(SamplesOf("hrv_score"), 50)
    /\ activity_baselines["avg_pace_min_km"].target < activity_baselines["avg_pace_min_km"].poor

\* C15 as stated: from fewer samples than the minimum (7 in the
\* specification) no baseline is estimated: the establishment fails and
\* returns nothing, and the caller takes the static defaults.
C15_Original ==
    Len(health_df) < 7 => (health_baselines = <<>> /\ activity_baselines = <<>>)

RawHealth(r) ==
    <<r.steps, r.active_minutes, r.sleep_efficiency, r.hrv_score, r.resting_hr,
      r.stress_avg>>

RawActivity(r) ==
    <<r.distance_km, r.avg_pace_min_km, r.avg_hr, r.calories_burned, r.elevation_gain>>

\* C16 as stated: a derived value is computed from the input values of its
\* row and from nothing else -- no random, default or synthetic stand-in --
\* so two rows with the same input values carry the same derived values.
C16_Original ==
    Derived =>
        /\ \A i, j \in 1..Len(health_df) :
              RawHealth(health_df[i]) = RawHealth(health_df[j])
                  => health_df[i] = health_df[j]
        /\ \A i, j \in 1..Len(activity_df) :
              RawActivity(activity_df[i]) = RawActivity(activity_df[j])
                  => activity_df[i] = activity_df[j]

\* C17 as stated: computing the derived metrics again on frames that carry
\* them changes no value of either frame.
C17_Original ==
    [][(pc = "derived" /\ pc' = "derived")
          => (health_df' = health_df /\ activity_df' = activity_df)]_vars

----------------------------------------------------------------------------
(* The database: the table health_data of create_database.py and the       *)
(* queries of db_helper.py (HealthDataManager).                            *)
(*                                                                         *)
(* A row is [timestamp, metric_name, metric_value, device_id]; the columns *)
(* id, sync_timestamp and created_at, which no statement reads, are left   *)
(* out.  No column names a user.  Time is counted in hours, metric values  *)
(* in hundredths (Scale).                                                  *)

\* Hours the clock runs through.
MaxTime == 2

\* `timestamp is None`: the argument was not given.
NoTimestamp == 0

\* device_id: 'manual' is the default of insert_health_data, 'simulator' the
\* device of generate_sample_data.
Devices == {"manual", "simulator"}

\* Values a device reports for a metric (hundredths).
SampleValues(metric_name) ==
    IF metric_name = "heart_rate" THEN {4500, 7000} ELSE {9700}

\* user_id arguments: 1 is the default user, 2 another profile.
Users == {1, 2}

\* The `hours` of the display periods '1h' and '24h'.
Windows == {1, 24}

SameKey(r, timestamp, metric_name) ==
    r.timestamp = timestamp /\ r.metric_name = metric_name

\* Mutant: INSERT into a table without UNIQUE(timestamp, metric_name).
insert_health_data_append(rows, metric_name, value, timestamp, device_id) ==
    LET ts == IF timestamp = NoTimestamp THEN now ELSE timestamp
    IN  rows \cup {[timestamp |-> ts, metric_name |-> metric_name,
                    metric_value |-> value, device_id |-> device_id]}

\* db_helper.py 60-74: INSERT OR REPLACE under UNIQUE(timestamp, metric_name)
\* (create_database.py 34): the row in conflict is deleted, the new one is
\* inserted.
insert_health_data(rows, metric_name, value, timestamp, device_id) ==
    LET ts == IF timestamp = NoTimestamp THEN now ELSE timestamp
    IN  {r \in rows : ~SameKey(r, ts, metric_name)}
        \cup {[timestamp |-> ts, metric_name |-> metric_name,
               metric_value |-> value, device_id |-> device_id]}

\* ORDER BY timestamp
RECURSIVE OrderByTimestamp(_)
OrderByTimestamp(rows) ==
    IF rows = {} THEN <<>>
    ELSE LET first == CHOOSE r \in rows : \A q \in rows : r.timestamp <= q.timestamp
         IN  <<first>> \o OrderByTimestamp(rows \ {first})

\* db_helper.py 14-34: the series of (timestamp, metric_value) of one metric
\* since `hours` hours ago, in ascending order of time; the empty series when
\* there is no row.  user_id is a parameter the query does not use.  The
\* clock of SQLite, datetime('now'), and the clock that stamped the rows are
\* taken to be the same clock.
get_metric_data(metric_name, hours, user_id) ==
    LET selected == {r \in health_data :
                        r.metric_name = metric_name /\ r.timestamp >= now - hours}
        ordered == OrderByTimestamp(selected)
    IN  [i \in 1..Len(ordered) |->
            [timestamp |-> ordered[i].timestamp, value |-> ordered[i].metric_value]]

\* db_helper.py 76-83
get_available_metrics == {r.metric_name : r \in health_data}

\* db_helper.py 85-110: for every metric that has a row, the value and the
\* timestamp of its row of the greatest timestamp.  user_id is a parameter
\* the query does not use.
get_latest_values(user_id) ==
    [m \in get_available_metrics |->
        LET last == CHOOSE r \in health_data :
                        /\ r.metric_name = m
                        /\ \A q \in health_data :
                              q.metric_name = m => q.timestamp <= r.timestamp
        IN  [value |-> last.metric_value, timestamp |-> last.timestamp]]

\* One call of insert_health_data.
InsertOf(metric_name, value, timestamp, device_id) ==
    /\ health_data' = insert_health_data(health_data, metric_name, value,
                                         timestamp, device_id)
    /\ UNCHANGED now
    /\ UNCHANGED <<dashboard_vars, analysis_vars, db_vars, main_vars>>

InsertHealthData ==
    \E metric_name \in Metrics, timestamp \in {NoTimestamp} \cup (1..MaxTime),
       device_id \in Devices :
        \E value \in SampleValues(metric_name) :
            InsertOf(metric_name, value, timestamp, device_id)

\* An hour passes.
Tick ==
    /\ now < MaxTime
    /\ now' = now + 1
    /\ UNCHANGED health_data
    /\ UNCHANGED <<dashboard_vars, analysis_vars, db_vars, main_vars>>

NextStore ==
    \/ InsertHealthData
    \/ Tick

SpecStore == Init /\ [][NextStore]_vars

----------------------------------------------------------------------------
(* Properties of the store *)

RowsOfKey(rows, timestamp, metric_name) ==
    {r \in rows : SameKey(r, timestamp, metric_name)}

\* C19: the table holds at most one row per (timestamp, metric_name); after
\* an insert the one row of its key has the value and the device of that
\* insert, and the rows of every other key are what they were.
C19_Upsert ==
    /\ [](\A r, q \in health_data :
            SameKey(r, q.timestamp, q.metric_name) => r = q)
    /\ [][\A metric_name \in Metrics, timestamp \in {NoTimestamp} \cup (1..MaxTime),
             device_id \in Devices :
            \A value \in SampleValues(metric_name) :
               InsertOf(metric_name, value, timestamp, device_id) =>
                  LET ts == IF timestamp = NoTimestamp THEN now ELSE timestamp
                  IN  /\ RowsOfKey(health_data', ts, metric_name) =
                            {[timestamp |-> ts, metric_name |-> metric_name,
                              metric_value |-> value, device_id |-> device_id]}
                      /\ {r \in health_data' : ~SameKey(r, ts, metric_name)} =
                            {r \in health_data : ~SameKey(r, ts, metric_name)}]_vars

\* C19 witness: rows under several keys are stored, and an insert with
\* another value and another device can follow for the key of one of them.
C19_Witness ==
    /\ Cardinality(health_data) >= 3
    /\ \E r \in health_data :
       \E value \in SampleValues(r.metric_name), device_id \in Devices :
          /\ value # r.metric_value
          /\ device_id # r.device_id
          /\ ENABLED InsertOf(r.metric_name, value, r.timestamp, device_id)

\* C20 as stated: no sample is shared across users: what get_metric_data and
\* get_latest_values return for one user has no sample in common with what
\* they return for another user.
C20_Original ==
    \A a, b \in Users :
        a # b =>
            /\ \A m \in Metrics, hours \in Windows :
                  Range(get_metric_data(m, hours, a))
                      \cap Range(get_metric_data(m, hours, b)) = {}
            /\ \A m \in DOMAIN get_latest_values(a) :
                  m \notin DOMAIN get_latest_values(b)

----------------------------------------------------------------------------
(* The database dashboard: "scripts - v1.0/dashboard.py" over db_helper.py.  *)
(* As for the session dashboard, one action is one interaction followed by   *)
(* one run of the script; between two runs a device may write to the store.  *)

\* Metrics a device writes in this part of the model: heart_rate has a row in
\* the table personal_baselines, vo2_max (create_database.py 176) has none.
DbMetrics == {"heart_rate", "vo2_max"}

\* Values a device reports (hundredths); for heart_rate one below the minimum
\* of its baseline, one near the target, one between the two, one above the
\* maximum.
DbValues(metric_name) ==
    IF metric_name = "heart_rate" THEN {4500, 6500, 7000, 9000} ELSE {4500}

\* The timestamp of a row written for a past hour (create_database.py 229-275
\* writes the rows of past days): at every hour of the clock it is more than
\* one hour and less than 24 hours old.
HistoryTime == 0 - MaxTime

\* self.user_id
self_user_id == 1

\* Two of the six display periods of the select box, and their `hours`.
TimeRanges == {"1h", "24h"}

Hours(range) == IF range = "1h" THEN 1 ELSE 24

\* create_database.py 202-219: the rows of personal_baselines of the default
\* user (two of the ten metrics), every column NOT NULL.
default_baselines ==
    [m \in {"heart_rate", "spo2"} |->
        IF m = "heart_rate" THEN [target |-> 65, min |-> 50, max |-> 80]
        ELSE [target |-> 98, min |-> 95, max |-> 100]]

\* db_helper.py 36-58
get_user_baselines(user) ==
    IF user = self_user_id THEN default_baselines ELSE <<>>

\* np.nan as the value of a sample; the values of the store are not negative.
NaN == -1

\* dashboard.py 116-126: the series of the store, or, when that is empty, a
\* series of NaN with one entry per hour from now - hours to now.
load_data_from_db(metric) ==
    LET h == Hours(time_range)
        s == get_metric_data(metric, h, self_user_id)
    IN  IF s = <<>>
        THEN [i \in 1..(h + 1) |-> [timestamp |-> now - h + i - 1, value |-> NaN]]
        ELSE s

\* Series.dropna()
dropna(data) == SelectSeq(data, LAMBDA r : r.value # NaN)

\* The tolerance of the target alert: max(1, 0.05 * target)
DbToleranceMin == 1
DbTolerancePct == 5

DbAlert(metric, msg, severity) ==
    [metric |-> metric, msg |-> msg, severity |-> severity]

\* dashboard.py 229-234: the if/elif/elif chain on the current value.  A
\* metric without a row of baselines compares with -inf, inf, target 0 and
\* tolerance max(1, 0.05 * 1).  The threshold the message quotes in
\* parentheses is left out of msg.
ThresholdChain(metric, current_value) ==
    LET has == metric \in DOMAIN personal_baselines
        b == personal_baselines[metric]
        target == IF has THEN b.target ELSE 0
        tolerance == Max2(DbToleranceMin * Scale,
                          (DbTolerancePct * (IF has THEN b.target ELSE 1) * Scale) \div 100)
    IN  IF has /\ current_value < b.min * Scale
        THEN <<DbAlert(metric, "Below minimum", "high")>>
        ELSE IF has /\ current_value > b.max * Scale
        THEN <<DbAlert(metric, "Above maximum", "high")>>
        ELSE IF Abs(current_value - target * Scale) <= tolerance
        THEN <<DbAlert(metric, "At/near target", "low")>>
        ELSE <<>>

\* Mutant: no `continue` after the alert of a metric without data; the chain
\* runs on the current value 0 the gauge chart substitutes.
MetricAlertDb_fallthrough(metric) ==
    LET present == dropna(load_data_from_db(metric))
    IN  IF present = <<>>
        THEN <<DbAlert(metric, "No data available", "low")>> \o ThresholdChain(metric, 0)
        ELSE ThresholdChain(metric, present[Len(present)].value)

\* dashboard.py 223-234: the body of the loop of create_alert_system for one
\* metric.
MetricAlertDb(metric) ==
    LET present == dropna(load_data_from_db(metric))
    IN  IF present = <<>>
        THEN <<DbAlert(metric, "No data available", "low")>>
        ELSE ThresholdChain(metric, present[Len(present)].value)

\* Mutant: the loop ends at the first metric without data (`break`).
RECURSIVE AlertPass_break(_)
AlertPass_break(metrics) ==
    IF metrics = <<>> THEN <<>>
    ELSE IF dropna(load_data_from_db(Head(metrics))) = <<>>
    THEN MetricAlertDb(Head(metrics))
    ELSE MetricAlertDb(Head(metrics)) \o AlertPass_break(Tail(metrics))

\* dashboard.py 221-234: the loop over the selected metrics, in their order.
RECURSIVE AlertPass(_)
AlertPass(metrics) ==
    IF metrics = <<>> THEN <<>>
    ELSE MetricAlertDb(Head(metrics)) \o AlertPass(Tail(metrics))

\* dashboard.py 218-240
create_alert_system == AlertPass(primary_metrics)

\* One run of the script: the constructor loads the baselines of the user
\* from the store, the sidebar returns the widget values, the alert pass
\* reads the store.
DbRun(selected, range) ==
    /\ personal_baselines' = get_user_baselines(self_user_id)
    /\ primary_metrics' = selected
    /\ time_range' = range
    /\ UNCHANGED store_vars
    /\ alerts' = create_alert_system'
    /\ UNCHANGED <<alert_types, sensitivity, current, edits, custom_metrics>>
    /\ UNCHANGED <<analysis_vars, main_vars>>

\* A rerun without a change of a widget.
DbRefresh == DbRun(primary_metrics, time_range)

\* "Choose Primary Metrics": the options are get_available_metrics().
DbSelectMetric ==
    \E m \in get_available_metrics \ Range(primary_metrics) :
        DbRun(Append(primary_metrics, m), time_range)

DbDeselectMetric ==
    \E m \in Range(primary_metrics) :
        DbRun(Without(primary_metrics, m), time_range)

\* "Display Period"
DbSetTimeRange ==
    \E range \in TimeRanges \ {time_range} :
        DbRun(primary_metrics, range)

\* A device writes one reading, stamped now or with a past hour.
DeviceSync ==
    \E metric_name \in DbMetrics, timestamp \in {NoTimestamp, HistoryTime} :
    \E value \in DbValues(metric_name) :
        /\ health_data' = insert_health_data(health_data, metric_name, value,
                                             timestamp, "simulator")
        /\ UNCHANGED now
        /\ UNCHANGED <<dashboard_vars, analysis_vars, db_vars, main_vars>>

NextDb ==
    \/ DbRefresh
    \/ DbSelectMetric
    \/ DbDeselectMetric
    \/ DbSetTimeRange
    \/ DeviceSync

SpecDb == Init /\ [][NextDb]_vars

----------------------------------------------------------------------------
(* Properties of the database dashboard *)

\* The samples of a metric in the window of the selected display period.
WindowSamples(m) == get_metric_data(m, Hours(time_range), self_user_id)

\* C21 as stated: when the store has no sample of a metric in the window,
\* loading the metric gives the empty series, not a series of placeholders.
C21_Original ==
    \A m \in DbMetrics :
        WindowSamples(m) = <<>> => load_data_from_db(m) = <<>>

\* The alerts of the last pass for metric m.
AlertsOfMetric(m) == SelectSeq(alerts, LAMBDA a : a.metric = m)

\* A metric for which the pass finds no sample or no baseline.
Failing(m) == WindowSamples(m) = <<>> \/ m \notin DOMAIN personal_baselines

\* After a pass: leaving a failing metric out of the selection gives the
\* other metrics the alerts they have now.
Isolated ==
    \A f \in Range(primary_metrics) :
        Failing(f) =>
            SelectSeq(alerts, LAMBDA a : a.metric # f)
                = AlertPass(Without(primary_metrics, f))

\* C22: after every run of the script, a selected metric without data in the
\* window or without a baseline has not stopped the pass: the alerts of all
\* other selected metrics are the alerts a pass without that metric gives.
C22_FailureIsolated ==
    [][health_data' = health_data => Isolated']_vars

\* C22 witness: a pass whose first metric has no data in the window (its only
\* row is older than the display period) and has no baseline, and whose
\* second metric got a threshold alert.
C22_Witness ==
    /\ primary_metrics = <<"vo2_max", "heart_rate">>
    /\ time_range = "1h"
    /\ alerts = <<DbAlert("vo2_max", "No data available", "low"),
                  DbAlert("heart_rate", "Below minimum", "high")>>
    /\ \E r \in health_data : r.metric_name = "vo2_max"
    /\ WindowSamples("vo2_max") = <<>>

\* The alerts of metric m are what the claim allows for the store of the pass.
OneAlert(m) ==
    LET mine == AlertsOfMetric(m)
        samples == WindowSamples(m)
        v == samples[Len(samples)].value
        has == m \in DOMAIN personal_baselines
        b == personal_baselines[m]
    IN  /\ Len(mine) <= 1
        /\ samples = <<>> => mine = <<DbAlert(m, "No data available", "low")>>
        /\ samples # <<>> =>
              \A i \in 1..Len(mine) :
                  \/ /\ mine[i] = DbAlert(m, "Below minimum", "high")
                     /\ has /\ v < b.min * Scale
                  \/ /\ mine[i] = DbAlert(m, "Above maximum", "high")
                     /\ has /\ v > b.max * Scale
                  \/ /\ mine[i] = DbAlert(m, "At/near target", "low")
                     /\ has => (b.min * Scale <= v /\ v <= b.max * Scale)

\* C28: after every run of the script each selected metric has at most one
\* alert: exactly the low alert 'No data available' when the window has no
\* sample of it, otherwise at most one of below minimum, above maximum and
\* at/near target, the last never for a value outside [min, max].
C28_OneAlertPerMetric ==
    [][health_data' = health_data =>
          (\A m \in Range(primary_metrics) : OneAlert(m))']_vars

\* C28 witness: a pass that gave one metric the alert of a missing sample and
\* the other the target alert, and nothing else.
C28_Witness ==
    /\ Len(primary_metrics) = 2
    /\ \E i, j \in 1..Len(alerts) :
          /\ alerts[i].msg = "No data available"
          /\ alerts[j].msg = "At/near target"
    /\ Len(alerts) = 2
    /\ \A m \in Range(primary_metrics) : OneAlert(m)

----------------------------------------------------------------------------
(* app/main.py, statement by statement.  One script runs at a time in a      *)
(* session.  A widget interaction stops the run in progress at its next      *)
(* Streamlit call and starts the script again from the top; an exception     *)
(* that leaves main() ends the run.  What the statements compute is in the   *)
(* actions of the dashboards above; here only the position of the run, the   *)
(* countdown and the reachability of the store change.                       *)

\* The statements of main() in their order: lines 15, 18, 19, 22, 25, 28, 31.
Statements ==
    <<"dashboard", "sidebar", "baselines", "layout", "alerts", "builder", "checkbox">>

\* Statements that open a connection: the constructor (get_user_baselines),
\* the sidebar (get_available_metrics), and layout and alert system for every
\* selected metric (get_metric_data).
UsesStore(p) ==
    \/ p \in {"dashboard", "sidebar"}
    \/ p \in {"layout", "alerts"} /\ primary_metrics # <<>>

\* Values of the slider the model moves to.
UpdateFreqChoices == {UpdateFreqMin, UpdateFreqMin + UpdateFreqStep, UpdateFreqMax}

\* Mutant: the countdown starts whatever the checkbox returns.
NextStatement_unchecked(p, checked) ==
    IF p = "checkbox" THEN "countdown"
    ELSE Statements[1 + CHOOSE i \in 1..Len(Statements) : Statements[i] = p]

\* Where the run is after statement p has returned; `if st.sidebar.checkbox(...)`
\* enters the countdown or falls off the end of main().
NextStatement(p, checked) ==
    IF p = "checkbox" THEN (IF checked THEN "countdown" ELSE "ended")
    ELSE Statements[1 + CHOOSE i \in 1..Len(Statements) : Statements[i] = p]

\* One statement of main(): sqlite3.connect raises when the store cannot be
\* opened, nothing catches it, and the run ends before line 31.  The page
\* keeps the elements of the run before until the run is over; a run that
\* ended without the checkbox leaves a page without it.
RunStatement ==
    /\ run_pc \in Range(Statements)
    /\ IF UsesStore(run_pc) /\ ~connected
       THEN /\ run_pc' = "failed"
            /\ remaining' = 0
            /\ checkbox_shown' = FALSE
       ELSE /\ run_pc' = NextStatement(run_pc, auto_refresh)
            /\ remaining' = IF run_pc' = "countdown" THEN update_freq ELSE 0
            /\ checkbox_shown' = (checkbox_shown \/ run_pc = "checkbox")
    /\ UNCHANGED <<auto_refresh, update_freq, connected>>
    /\ UNCHANGED <<dashboard_vars, store_vars, analysis_vars, db_vars>>

\* Mutant: the loop counts two seconds per iteration.
CountdownTick_skip ==
    /\ run_pc = "countdown"
    /\ remaining > 0
    /\ remaining' = Max2(0, remaining - 2)
    /\ UNCHANGED <<run_pc, auto_refresh, update_freq, connected, checkbox_shown>>
    /\ UNCHANGED <<dashboard_vars, store_vars, analysis_vars, db_vars>>

\* main.py 36-38: one iteration of `for i in range(update_freq, 0, -1)`:
\* the text of the placeholder and time.sleep(1).
CountdownTick ==
    /\ run_pc = "countdown"
    /\ remaining > 0
    /\ remaining' = remaining - 1
    /\ UNCHANGED <<run_pc, auto_refresh, update_freq, connected, checkbox_shown>>
    /\ UNCHANGED <<dashboard_vars, store_vars, analysis_vars, db_vars>>

\* Mutant: the auto-refresh block stands before the custom metric builder and
\* does not wait.
Rerun_early ==
    /\ run_pc \in {"builder", "countdown"}
    /\ auto_refresh
    /\ run_pc = "countdown" => remaining = 0
    /\ run_pc' = "dashboard"
    /\ remaining' = 0
    /\ UNCHANGED <<auto_refresh, update_freq, connected, checkbox_shown>>
    /\ UNCHANGED <<dashboard_vars, store_vars, analysis_vars, db_vars>>

\* main.py 40-41: the loop is over, st.rerun() starts the script again.
Rerun ==
    /\ run_pc = "countdown"
    /\ remaining = 0
    /\ run_pc' = "dashboard"
    /\ remaining' = 0
    /\ UNCHANGED <<auto_refresh, update_freq, connected, checkbox_shown>>
    /\ UNCHANGED <<dashboard_vars, store_vars, analysis_vars, db_vars>>

\* The user clicks the checkbox: the run in progress is abandoned and the
\* script starts again with the new value.
UserToggleAutoRefresh ==
    /\ run_pc # "failed"
    /\ checkbox_shown
    /\ auto_refresh' = ~auto_refresh
    /\ run_pc' = "dashboard"
    /\ remaining' = 0
    /\ UNCHANGED <<update_freq, connected, checkbox_shown>>
    /\ UNCHANGED <<dashboard_vars, store_vars, analysis_vars, db_vars>>

\* The user moves the slider, which the sidebar statement puts on the page.
UserSetUpdateFreq ==
    /\ run_pc # "failed"
    /\ checkbox_shown \/ run_pc \notin {"dashboard", "sidebar"}
    /\ \E f \in UpdateFreqChoices \ {update_freq} : update_freq' = f
    /\ run_pc' = "dashboard"
    /\ remaining' = 0
    /\ UNCHANGED <<auto_refresh, connected, checkbox_shown>>
    /\ UNCHANGED <<dashboard_vars, store_vars, analysis_vars, db_vars>>

\* After a failed run the page shows the exception; the user loads the page
\* again, which starts a new session with the initial widget values.
Reload ==
    /\ run_pc = "failed"
    /\ run_pc' = "dashboard"
    /\ remaining' = 0
    /\ auto_refresh' = FALSE
    /\ update_freq' = UpdateFreqDefault
    /\ checkbox_shown' = FALSE
    /\ UNCHANGED connected
    /\ UNCHANGED <<dashboard_vars, store_vars, analysis_vars, db_vars>>

\* The database file becomes unreachable, or reachable again.
StoreDown ==
    /\ connected
    /\ connected' = FALSE
    /\ UNCHANGED <<run_pc, remaining, auto_refresh, update_freq, checkbox_shown>>
    /\ UNCHANGED <<dashboard_vars, store_vars, analysis_vars, db_vars>>

StoreUp ==
    /\ ~connected
    /\ connected' = TRUE
    /\ UNCHANGED <<run_pc, remaining, auto_refresh, update_freq, checkbox_shown>>
    /\ UNCHANGED <<dashboard_vars, store_vars, analysis_vars, db_vars>>

\* The steps the script takes by itself.
ScriptNext ==
    \/ RunStatement
    \/ CountdownTick
    \/ Rerun

NextMain ==
    \/ RunStatement
    \/ CountdownTick
    \/ Rerun
    \/ UserToggleAutoRefresh
    \/ UserSetUpdateFreq
    \/ Reload
    \/ StoreDown
    \/ StoreUp

SpecMain == Init /\ [][NextMain]_vars

\* The script thread keeps running: a statement returns, a sleep of one
\* second ends.
SpecMainFair == SpecMain /\ WF_vars(ScriptNext)

----------------------------------------------------------------------------
(* Properties of the run of main() *)

\* The statements of an evaluation cycle.
Evaluating == Range(Statements) \ {"checkbox"}

\* A step in which no widget changes its value.
NoInteraction == auto_refresh' = auto_refresh /\ update_freq' = update_freq

\* C23 as stated: a run that failed on the store while auto-refresh is
\* enabled is followed by the next scheduled cycle, so the script has a next
\* step of its own.
C23_Original ==
    (run_pc = "failed" /\ auto_refresh) => ENABLED ScriptNext

\* With the checkbox cleared, a step without interaction starts no countdown
\* and no new run.
ClearedStops ==
    (~auto_refresh /\ NoInteraction /\ run_pc # "failed") =>
        /\ run_pc' # "countdown"
        /\ run_pc' = "dashboard" => run_pc = "dashboard"

\* C24 as stated: once the auto-refresh checkbox is cleared no wait and no
\* further cycle starts, and no evaluation cycle that has started is
\* interrupted before it completes.
C24_Original ==
    [][/\ ClearedStops
       /\ run_pc \in Evaluating \ {"dashboard"} => run_pc' # "dashboard"]_vars

\* C24: clearing the checkbox starts the script again at once and ends the
\* countdown; while the checkbox is cleared no step without interaction
\* starts a countdown or a new run; an evaluation that has started is
\* abandoned by a user interaction only.
C24_CancelStops ==
    [][/\ ClearedStops
       /\ (auto_refresh /\ ~auto_refresh') => (run_pc' = "dashboard" /\ remaining' = 0)
       /\ (run_pc \in Evaluating \ {"dashboard"} /\ run_pc' = "dashboard")
             => ~NoInteraction]_vars

\* C24 witness: the countdown is under way and a click clears the checkbox,
\* which ends the countdown and starts the run that reads the cleared box.
C24_Witness ==
    /\ run_pc = "countdown"
    /\ 0 < remaining /\ remaining < update_freq
    /\ ENABLED (UserToggleAutoRefresh /\ ~auto_refresh' /\ run_pc' = "dashboard")

\* C25 as stated: a cycle runs to completion before the next cycle starts.
C25_Original ==
    [][(run_pc' = "dashboard" /\ run_pc # "dashboard")
          => run_pc \in {"checkbox", "countdown", "ended", "failed"}]_vars

\* Statement q is the one after statement p.
Follows(p, q) ==
    \E i \in 1..(Len(Statements) - 1) : Statements[i] = p /\ Statements[i + 1] = q

\* C25: one run at a time, its statements in the order of main(); without a
\* user interaction a new run starts only from the end of the countdown that
\* follows the last statement (or after a failed run), so st.rerun() is
\* issued only after every step of the cycle has finished.
C25_RunsInOrder ==
    [][/\ (run_pc \in Evaluating /\ NoInteraction)
             => (run_pc' = run_pc \/ run_pc' = "failed" \/ Follows(run_pc, run_pc'))
       /\ (run_pc' = "dashboard" /\ run_pc \notin {"dashboard", "failed"} /\ NoInteraction)
             => (run_pc = "countdown" /\ remaining = 0)
       /\ run_pc' = "countdown" => run_pc \in {"checkbox", "countdown"}]_vars

\* C25 witness: every statement of the cycle has run, the countdown is over
\* and st.rerun() is about to start the next run.
C25_Witness ==
    /\ run_pc = "countdown"
    /\ remaining = 0
    /\ ENABLED (Rerun /\ run_pc' = "dashboard")

\* C30: the slider value is within 5..300; with the checkbox set and no
\* interaction the run enters a countdown of update_freq iterations, each
\* iteration takes one off, and the rerun comes at zero and not before; with
\* the checkbox cleared the run ends and nothing starts a run but an
\* interaction; and a cycle that reaches the checkbox while it is set is
\* always followed by the start of a new run.
C30_CountdownThenRerun ==
    /\ [](update_freq \in UpdateFreqMin..UpdateFreqMax)
    /\ [][/\ (run_pc = "checkbox" /\ NoInteraction /\ run_pc' # run_pc)
                => IF auto_refresh
                   THEN run_pc' = "countdown" /\ remaining' = update_freq
                   ELSE run_pc' = "ended"
          /\ (run_pc = "countdown" /\ NoInteraction
                /\ <<run_pc, remaining>>' # <<run_pc, remaining>>)
                => \/ remaining > 0 /\ run_pc' = "countdown" /\ remaining' = remaining - 1
                   \/ remaining = 0 /\ run_pc' = "dashboard"
          /\ (run_pc = "ended" /\ NoInteraction) => run_pc' = "ended"]_vars
    /\ (run_pc = "checkbox" /\ auto_refresh) ~> (run_pc = "dashboard")

\* C30 witness: a countdown of the largest slider value has run to its end.
C30_Witness ==
    /\ auto_refresh
    /\ update_freq = UpdateFreqMax
    /\ run_pc = "countdown"
    /\ remaining = 0

====
